---- MODULE Spec2Model ----
(***************************************************************************)
(* The ledger of src/blockchain.py (Transaction, Block, Blockchain) and    *)
(* the request handlers of src/server.py, as a state machine.              *)
(*                                                                         *)
(* Python values are records tagged with their run-time class in `kind`:   *)
(* a Block or Transaction object, or a plain dict (what to_dict() and      *)
(* Response.json() produce).  Reading an attribute of a dict raises        *)
(* AttributeError, as it does in Python.                                   *)
(***************************************************************************)
EXTENDS Integers, Sequences, FiniteSets, TLC

VARIABLES
    chain,                  \* Blockchain.chain
    current_transactions,   \* Blockchain.current_transactions
    nodes,                  \* Blockchain.nodes
    ret,                    \* the last call: its name, inputs and outcome
    promised,               \* history: what new_transaction returned for each pending transaction
    provenance,             \* history: how the local chain was built
    peers,                  \* the ledgers of the other replicas of the network
    inflight,               \* per thread: the call in progress, its position and locals
    lists,                  \* which list object the pool is, and each block's transactions
    submitted               \* history: the transactions the route has put in the pool

vars == <<chain, current_transactions, nodes, ret, promised, provenance,
          peers, inflight, lists, submitted>>

\* what the calls that run alone, in one step, leave as it is
elsewhere == <<peers, inflight, lists, submitted>>

----------------------------------------------------------------------------
(* Bounds of the model *)

MaxChain == 3       \* blocks sealed locally stop at this chain length
MaxPool == 1        \* pending transactions accepted
MaxProof == 2       \* largest proof tried by proof_of_work or passed by a caller

(* Program constants *)

GenesisProof == 100
RewardAmount == 1
HttpOk == 200

\* what time() returns
Times == {1}
Proofs == 0..MaxProof

node_identifier == "node1"

----------------------------------------------------------------------------
(* Sequence helpers *)

Last(s) == s[Len(s)]

\* Python's 0-based s[i]
At(s, i) == s[i + 1]

----------------------------------------------------------------------------
(* Value objects *)

Transaction(sender, recipient, amount) ==
    [kind |-> "Transaction", sender |-> sender, recipient |-> recipient, amount |-> amount]

Transaction_to_dict(t) ==
    [kind |-> "dict", sender |-> t.sender, recipient |-> t.recipient, amount |-> t.amount]

Block(index, timestamp, transactions, proof, previous_hash) ==
    [kind |-> "Block", index |-> index, timestamp |-> timestamp,
     transactions |-> transactions, proof |-> proof, previous_hash |-> previous_hash]

Block_to_dict(b) ==
    [kind |-> "dict", index |-> b.index, timestamp |-> b.timestamp,
     transactions |-> [i \in 1..Len(b.transactions) |-> Transaction_to_dict(b.transactions[i])],
     proof |-> b.proof, previous_hash |-> b.previous_hash]

\* attribute access (block.proof, block.to_dict(), ...) succeeds on objects only
IsBlock(b) == b.kind = "Block"

----------------------------------------------------------------------------
(* json.dumps(obj, sort_keys=True): keys in lexicographic order *)

JsonStr(s) == "\"" \o s \o "\""

TransactionJson(d) ==
    "{\"amount\": " \o ToString(d.amount)
    \o ", \"recipient\": " \o JsonStr(d.recipient)
    \o ", \"sender\": " \o JsonStr(d.sender) \o "}"

RECURSIVE JsonItems(_)
JsonItems(ds) ==
    IF Len(ds) = 0 THEN ""
    ELSE IF Len(ds) = 1 THEN TransactionJson(ds[1])
    ELSE TransactionJson(ds[1]) \o ", " \o JsonItems(Tail(ds))

JsonDumps(d) ==
    "{\"index\": " \o ToString(d.index)
    \o ", \"previous_hash\": " \o JsonStr(d.previous_hash)
    \o ", \"proof\": " \o ToString(d.proof)
    \o ", \"timestamp\": " \o ToString(d.timestamp)
    \o ", \"transactions\": [" \o JsonItems(d.transactions) \o "]}"

----------------------------------------------------------------------------
(* hashlib.sha256(...).hexdigest() is kept symbolic: a digest is its first *)
(* four hex characters followed by the hashed bytes, so distinct inputs    *)
(* have distinct digests.  ZeroGuesses fixes which proof guesses have a    *)
(* digest that starts with 0000.                                           *)

ZeroGuesses == {"1002", "21", "10", "02", "31", "32", "43"}

HexPrefix4(bytes) == IF bytes \in ZeroGuesses THEN "0000" ELSE "8f3a"

Sha256Hex(bytes) == HexPrefix4(bytes) \o ":" \o bytes

\* hash, were the timestamp left out of the hashed dictionary
hash_without_timestamp(block) ==
    Sha256Hex(JsonDumps([Block_to_dict(block) EXCEPT !.timestamp = 0]))

\* Blockchain.hash (a Block object is expected: to_dict() is called on it)
hash(block) == Sha256Hex(JsonDumps(Block_to_dict(block)))

\* Blockchain.validate_proof
validate_proof(last_proof, proof) ==
    LET guess == ToString(last_proof) \o ToString(proof)
    IN  HexPrefix4(guess) = "0000"

\* Blockchain.proof_of_work: the loop, cut off above MaxProof (-1: still searching)
RECURSIVE PowLoop(_, _)
PowLoop(last_proof, proof) ==
    IF proof > MaxProof THEN -1
    ELSE IF validate_proof(last_proof, proof) = FALSE THEN PowLoop(last_proof, proof + 1)
    ELSE proof

proof_of_work(last_proof) == PowLoop(last_proof, 0)

----------------------------------------------------------------------------
(* Blockchain: methods as functions of the object `self`                   *)
(* [chain, current_transactions, nodes].  Each returns the object after    *)
(* the call, the exception raised ("" for none) and the returned value.    *)

Returned(self, value) == [self |-> self, raised |-> "", value |-> value]

Raised(self, exception) == [self |-> self, raised |-> exception, value |-> FALSE]

\* the optional argument of new_block: <<>> when omitted (None), else <<value>>
Falsy(previous_hash) == previous_hash = <<>> \/ previous_hash[1] = ""

\* Blockchain.last_block
last_block(self) == Last(self.chain)

\* new_block, were the default previous_hash the hash of the first block
new_block_first_hash(self, proof, previous_hash, now) ==
    IF Falsy(previous_hash) /\ Len(self.chain) = 0 THEN Raised(self, "IndexError")
    ELSE IF Falsy(previous_hash) /\ ~IsBlock(last_block(self)) THEN Raised(self, "AttributeError")
    ELSE LET block == Block(Len(self.chain) + 1, now, self.current_transactions, proof,
                            IF Falsy(previous_hash) THEN hash(At(self.chain, 0))
                            ELSE previous_hash[1])
         IN  Returned([self EXCEPT !.current_transactions = <<>>,
                                   !.chain = Append(self.chain, block)], block)

\* new_block, were the pending transactions not reset
new_block_no_reset(self, proof, previous_hash, now) ==
    IF Falsy(previous_hash) /\ Len(self.chain) = 0 THEN Raised(self, "IndexError")
    ELSE IF Falsy(previous_hash) /\ ~IsBlock(last_block(self)) THEN Raised(self, "AttributeError")
    ELSE LET block == Block(Len(self.chain) + 1, now, self.current_transactions, proof,
                            IF Falsy(previous_hash) THEN hash(last_block(self))
                            ELSE previous_hash[1])
         IN  Returned([self EXCEPT !.chain = Append(self.chain, block)], block)

\* Blockchain.new_block
new_block(self, proof, previous_hash, now) ==
    IF Falsy(previous_hash) /\ Len(self.chain) = 0 THEN Raised(self, "IndexError")
    ELSE IF Falsy(previous_hash) /\ ~IsBlock(last_block(self)) THEN Raised(self, "AttributeError")
    ELSE LET block == Block(Len(self.chain) + 1, now, self.current_transactions, proof,
                            IF Falsy(previous_hash) THEN hash(last_block(self))
                            ELSE previous_hash[1])
         IN  Returned([self EXCEPT !.current_transactions = <<>>,
                                   !.chain = Append(self.chain, block)], block)

\* Blockchain.new_transaction: the append happens before last_block.index is read
new_transaction(self, sender, recipient, amount) ==
    LET transaction == Transaction(sender, recipient, amount)
        after == [self EXCEPT !.current_transactions = Append(self.current_transactions, transaction)]
    IN  IF ~IsBlock(last_block(after)) THEN Raised(after, "AttributeError")
        ELSE Returned(after, last_block(after).index + 1)

\* urlparse(address).netloc: the text between "//" and the next "/"
Addresses == {"http://a:5000", "http://a:5000/chain", "http://b:5000"}

urlparse_netloc(address) ==
    CASE address = "http://a:5000" -> "a:5000"
      [] address = "http://a:5000/chain" -> "a:5000"
      [] address = "http://b:5000" -> "b:5000"

\* register_node, were the address stored as it was given
register_node_whole_address(self, address) ==
    Returned([self EXCEPT !.nodes = self.nodes \cup {address}], FALSE)

\* Blockchain.register_node
register_node(self, address) ==
    Returned([self EXCEPT !.nodes = self.nodes \cup {urlparse_netloc(address)}], FALSE)

\* Blockchain.validate_chain: the loop from current_index on
RECURSIVE validate_chain_loop(_, _, _)
validate_chain_loop(candidate, last, current_index) ==
    IF ~(current_index < Len(candidate)) THEN [raised |-> "", value |-> TRUE]
    ELSE LET block == At(candidate, current_index)
         IN  IF ~IsBlock(block) \/ ~IsBlock(last)
                 THEN [raised |-> "AttributeError", value |-> FALSE]
             ELSE IF block.previous_hash # hash(last)
                 THEN [raised |-> "", value |-> FALSE]
             ELSE IF ~validate_proof(last.proof, block.proof)
                 THEN [raised |-> "", value |-> FALSE]
             ELSE validate_chain_loop(candidate, block, current_index + 1)

\* Blockchain.validate_chain
validate_chain(candidate) ==
    IF Len(candidate) = 0 THEN [raised |-> "IndexError", value |-> FALSE]
    ELSE validate_chain_loop(candidate, At(candidate, 0), 1)

\* Blockchain.resolve_conflicts: the loop over the peers.  scan lists the peer
\* set in the order Python iterates it, each node with what requests.get gives.
RECURSIVE resolve_conflicts_loop(_, _, _, _)
resolve_conflicts_loop(scan, i, new_chain, max_length) ==
    IF i > Len(scan) THEN [raised |-> "", new_chain |-> new_chain]
    ELSE LET response == scan[i].response
         IN  IF ~response.reachable
                 THEN [raised |-> "RequestException", new_chain |-> new_chain]
             ELSE IF response.status_code # HttpOk
                 THEN resolve_conflicts_loop(scan, i + 1, new_chain, max_length)
             ELSE IF ~(response.length > max_length)
                 THEN resolve_conflicts_loop(scan, i + 1, new_chain, max_length)
             ELSE LET valid == validate_chain(response.chain)
                  IN  IF valid.raised # ""
                          THEN [raised |-> valid.raised, new_chain |-> new_chain]
                      ELSE IF valid.value
                          THEN resolve_conflicts_loop(scan, i + 1, response.chain, response.length)
                      ELSE resolve_conflicts_loop(scan, i + 1, new_chain, max_length)

\* resolve_conflicts, were the pending transactions dropped with the replaced chain
resolve_conflicts_reset_pool(self, scan) ==
    LET loop == resolve_conflicts_loop(scan, 1, <<>>, Len(self.chain))
    IN  IF loop.raised # "" THEN Raised(self, loop.raised)
        ELSE IF Len(loop.new_chain) > 0
            THEN Returned([self EXCEPT !.chain = loop.new_chain,
                                       !.current_transactions = <<>>], TRUE)
        ELSE Returned(self, FALSE)

\* Blockchain.resolve_conflicts
resolve_conflicts(self, scan) ==
    LET loop == resolve_conflicts_loop(scan, 1, <<>>, Len(self.chain))
    IN  IF loop.raised # "" THEN Raised(self, loop.raised)
        ELSE IF Len(loop.new_chain) > 0
            THEN Returned([self EXCEPT !.chain = loop.new_chain], TRUE)
        ELSE Returned(self, FALSE)

\* Blockchain.__init__
Blockchain(now) ==
    new_block([chain |-> <<>>, current_transactions |-> <<>>, nodes |-> {}],
              GenesisProof, <<"1">>, now).self

----------------------------------------------------------------------------
(* server.py: the handlers as functions of the module's blockchain object *)

\* mine, were previous_hash taken from the first block of the chain
mine_first_hash(self, now) ==
    LET last == last_block(self)
    IN  IF ~IsBlock(last) THEN Raised(self, "AttributeError")
        ELSE LET last_proof == last.proof
                 proof == proof_of_work(last_proof)
                 reward == new_transaction(self, "0", node_identifier, RewardAmount)
                 previous_hash == hash(At(self.chain, 0))
             IN  new_block(reward.self, proof, <<previous_hash>>, now)

\* mine, were the reward put before the pending transactions
mine_reward_first(self, now) ==
    LET last == last_block(self)
    IN  IF ~IsBlock(last) THEN Raised(self, "AttributeError")
        ELSE LET last_proof == last.proof
                 proof == proof_of_work(last_proof)
                 reward == [self EXCEPT !.current_transactions =
                               <<Transaction("0", node_identifier, RewardAmount)>> \o @]
                 previous_hash == hash(last)
             IN  new_block(reward, proof, <<previous_hash>>, now)

\* mine
mine(self, now) ==
    LET last == last_block(self)
    IN  IF ~IsBlock(last) THEN Raised(self, "AttributeError")
        ELSE LET last_proof == last.proof
                 proof == proof_of_work(last_proof)
                 reward == new_transaction(self, "0", node_identifier, RewardAmount)
                 previous_hash == hash(last)
             IN  new_block(reward.self, proof, <<previous_hash>>, now)

\* full_chain: the response body, or the exception of block.to_dict()
full_chain(self) ==
    IF \E i \in 1..Len(self.chain) : ~IsBlock(self.chain[i])
        THEN Raised(self, "AttributeError")
    ELSE Returned(self, [chain |-> [i \in 1..Len(self.chain) |-> Block_to_dict(self.chain[i])],
                         length |-> Len(self.chain)])

\* new_transaction (the route): the first required field that is missing or falsy
MissingField(payload) ==
    IF payload.sender = "" THEN "sender"
    ELSE IF payload.recipient = "" THEN "recipient"
    ELSE IF payload.amount = 0 THEN "amount"
    ELSE ""

----------------------------------------------------------------------------
(* The peers: what a GET of http://<node>/chain gives.  A peer that runs   *)
(* this program serves full_chain of its own ledger; any other server may  *)
(* answer with any body.                                                   *)

RECURSIVE PeerLedger(_)
PeerLedger(n) == IF n <= 1 THEN Blockchain(1) ELSE mine(PeerLedger(n - 1), 1).self

\* a peer whose last block was sealed with a proof that does not validate
PeerLedgerBadProof(n) ==
    new_block(PeerLedger(n - 1), last_block(PeerLedger(n - 1)).proof, <<>>, 1).self

Served(self) ==
    [reachable |-> TRUE, status_code |-> HttpOk,
     length |-> full_chain(self).value.length, chain |-> full_chain(self).value.chain]

Unreachable == [reachable |-> FALSE, status_code |-> 0, length |-> 0, chain |-> <<>>]

ServerError == [reachable |-> TRUE, status_code |-> 500, length |-> 0, chain |-> <<>>]

ForeignBlock ==
    [kind |-> "dict", index |-> 7, timestamp |-> 1,
     transactions |-> <<Transaction_to_dict(Transaction("M", "M", 99))>>,
     proof |-> 5, previous_hash |-> "x"]

\* bodies whose "length" is not the length of their "chain"
Overstated(blocks) ==
    [reachable |-> TRUE, status_code |-> HttpOk, length |-> MaxChain + 2, chain |-> blocks]

Responses ==
    {Unreachable, ServerError,
     Served(PeerLedger(2)), Served(PeerLedgerBadProof(2)), Served(PeerLedger(MaxChain + 1)),
     Overstated(<<ForeignBlock>>)}

Orders(S) ==
    {o \in [1..Cardinality(S) -> S] : \A i, j \in 1..Cardinality(S) : i # j => o[i] # o[j]}

Scans(S) ==
    {[i \in 1..Len(o) |-> [node |-> o[i], response |-> f[o[i]]]] :
        o \in Orders(S), f \in [S -> Responses]}

----------------------------------------------------------------------------
(* State *)

Self == [chain |-> chain, current_transactions |-> current_transactions, nodes |-> nodes]

Store(self) ==
    /\ chain' = self.chain
    /\ current_transactions' = self.current_transactions
    /\ nodes' = self.nodes

\* the record of a call: the object before it, its arguments and its outcome;
\* sealed_promises: for a call that sealed a block, what new_transaction had
\* returned for each transaction of that block
Call(op, args, result, sealed_promises) ==
    [op |-> op, before |-> Self, args |-> args, raised |-> result.raised,
     value |-> result.value, sealed_promises |-> sealed_promises]

\* history: a seal extends a chain built by valid seals only if its proof validates
\* against the last block and its previous_hash is omitted or is the last block's hash
ValidSeal(self, proof, previous_hash) ==
    /\ IsBlock(last_block(self))
    /\ validate_proof(last_block(self).proof, proof)
    /\ Falsy(previous_hash) \/ previous_hash[1] = hash(last_block(self))

Sealed(self, proof, previous_hash) ==
    IF provenance = "adopted" THEN "adopted"
    ELSE IF provenance = "valid seals" /\ ValidSeal(self, proof, previous_hash) THEN "valid seals"
    ELSE "seals"

\* the request threads of the server
Threads == {"t1", "t2"}

\* a thread that handles no request
Idle == [op |-> "", pc |-> "", locals |-> <<>>]

\* the list objects after __init__: list 0 went into the genesis block, list 1 is the pool
ListsAtStart == [pool |-> 1, blocks |-> <<0>>, made |-> 2]

\* no other replica, no request in progress
AtRest ==
    /\ peers = <<>>
    /\ inflight = [t \in Threads |-> Idle]
    /\ lists = ListsAtStart
    /\ submitted = {}

Init ==
    /\ AtRest
    /\ \E now \in Times :
          /\ chain = Blockchain(now).chain
          /\ current_transactions = Blockchain(now).current_transactions
          /\ nodes = Blockchain(now).nodes
    /\ ret = Call("__init__", <<>>, Returned(Self, FALSE), <<>>)
    /\ promised = <<>>
    /\ provenance = "valid seals"

----------------------------------------------------------------------------
(* Calls of the Blockchain object's methods *)

TxInputs == {<<"A", "B", 10>>, <<"B", "A", -5>>}

PreviousHashArgs(self) ==
    {<<>>, <<"">>, <<"abc">>, <<"1">>} \cup (IF IsBlock(last_block(self)) THEN {<<hash(last_block(self))>>} ELSE {})

NewBlockWith(proofs, hashes) ==
    \E proof \in proofs, previous_hash \in hashes, now \in Times :
        LET result == new_block(Self, proof, previous_hash, now)
        IN  /\ Len(chain) < MaxChain
            /\ Store(result.self)
            /\ ret' = Call("new_block", [proof |-> proof, previous_hash |-> previous_hash],
                           result, IF result.raised = "" THEN promised ELSE <<>>)
            /\ promised' = IF result.raised = "" THEN <<>> ELSE promised
            /\ provenance' = IF result.raised = "" THEN Sealed(Self, proof, previous_hash)
                             ELSE provenance
            /\ UNCHANGED elsewhere

\* new_block with any proof and any previous_hash
NewBlock == NewBlockWith(Proofs, PreviousHashArgs(Self))

\* new_block with the proof found for the genesis block, previous_hash omitted or not
NewBlockSameProof == NewBlockWith({proof_of_work(GenesisProof)}, {<<>>, <<"abc">>})

NewTransaction ==
    \E input \in TxInputs :
        LET result == new_transaction(Self, input[1], input[2], input[3])
        IN  /\ Len(current_transactions) < MaxPool
            /\ Store(result.self)
            /\ ret' = Call("new_transaction", input, result, <<>>)
            /\ promised' = Append(promised, IF result.raised = "" THEN result.value ELSE 0)
            /\ UNCHANGED <<provenance, elsewhere>>

RegisterNode ==
    \E address \in Addresses :
        LET result == register_node(Self, address)
        IN  /\ Store(result.self)
            /\ ret' = Call("register_node", address, result, <<>>)
            /\ UNCHANGED <<promised, provenance, elsewhere>>

ResolveConflicts ==
    \E scan \in Scans(nodes) :
        LET result == resolve_conflicts(Self, scan)
        IN  /\ Store(result.self)
            /\ ret' = Call("resolve_conflicts", scan, result, <<>>)
            /\ provenance' = IF result.raised = "" /\ result.value THEN "adopted" ELSE provenance
            /\ UNCHANGED <<promised, elsewhere>>

----------------------------------------------------------------------------
(* Requests to the server *)

Payloads ==
    {[sender |-> "A", recipient |-> "B", amount |-> 10],
     [sender |-> "B", recipient |-> "A", amount |-> -5],
     [sender |-> "A", recipient |-> "B", amount |-> 0],
     [sender |-> "", recipient |-> "B", amount |-> 10]}

\* the "nodes" of a register request: <<>> when the key is missing, else <<list>>
NodesPayloads ==
    {<<>>, << <<>> >>, << <<"http://a:5000", "http://b:5000">> >>}
    \cup {<< <<address>> >> : address \in Addresses}

RECURSIVE register_each(_, _)
register_each(self, list) ==
    IF list = <<>> THEN self
    ELSE register_each(register_node(self, Head(list)).self, Tail(list))

Mine ==
    \E now \in Times :
        LET result == mine(Self, now)
            reward == new_transaction(Self, "0", node_identifier, RewardAmount)
        IN  /\ Len(chain) < MaxChain
            /\ IsBlock(last_block(Self)) => proof_of_work(last_block(Self).proof) # -1
            /\ Store(result.self)
            /\ ret' = Call("mine", <<>>, result,
                           IF result.raised = "" THEN Append(promised, reward.value) ELSE <<>>)
            /\ promised' = IF result.raised = "" THEN <<>> ELSE promised
            /\ provenance' = IF result.raised = ""
                             THEN Sealed(Self, result.value.proof, <<result.value.previous_hash>>)
                             ELSE provenance
            /\ UNCHANGED elsewhere

NewTransactionRoute ==
    \E payload \in Payloads :
        LET result == new_transaction(Self, payload.sender, payload.recipient, payload.amount)
        IN  /\ Len(current_transactions) < MaxPool
            /\ IF MissingField(payload) # ""
                   THEN /\ ret' = Call("new_transaction route", payload,
                                       Returned(Self, [status_code |-> 400, index |-> 0]), <<>>)
                        /\ UNCHANGED <<chain, current_transactions, nodes, promised>>
                   ELSE /\ Store(result.self)
                        /\ ret' = Call("new_transaction route", payload,
                                       IF result.raised # "" THEN result
                                       ELSE Returned(result.self,
                                                     [status_code |-> 201, index |-> result.value]),
                                       <<>>)
                        /\ promised' = Append(promised,
                                              IF result.raised = "" THEN result.value ELSE 0)
            /\ UNCHANGED <<provenance, elsewhere>>

FullChain ==
    /\ ret' = Call("full_chain", <<>>, full_chain(Self), <<>>)
    /\ UNCHANGED <<chain, current_transactions, nodes, promised, provenance, elsewhere>>

RegisterNodes ==
    \E payload \in NodesPayloads :
        /\ IF payload = <<>>
               THEN /\ ret' = Call("register_nodes", payload, Returned(Self, 400), <<>>)
                    /\ UNCHANGED nodes
               ELSE /\ nodes' = register_each(Self, payload[1]).nodes
                    /\ ret' = Call("register_nodes", payload, Returned(Self, 201), <<>>)
        /\ UNCHANGED <<chain, current_transactions, promised, provenance, elsewhere>>

Consensus ==
    \E scan \in Scans(nodes) :
        LET result == resolve_conflicts(Self, scan)
        IN  /\ Store(result.self)
            /\ ret' = Call("consensus", <<>>, result, <<>>)
            /\ provenance' = IF result.raised = "" /\ result.value THEN "adopted" ELSE provenance
            /\ UNCHANGED <<promised, elsewhere>>

----------------------------------------------------------------------------
(* validate_chain called on a copy of the local chain in which one field   *)
(* of one block has another value of the same type                         *)

Fields == {"index", "timestamp", "transactions", "proof", "previous_hash"}

Reversed(seq) == [i \in 1..Len(seq) |-> seq[Len(seq) + 1 - i]]

OtherValues(block, field) ==
    CASE field = "index" -> (0..(MaxChain + 1)) \ {block.index}
      [] field = "timestamp" -> {0, 1, 2} \ {block.timestamp}
      [] field = "transactions" ->
            {<<>>, <<Transaction("M", "M", 99)>>, Reversed(block.transactions)}
            \ {block.transactions}
      [] field = "proof" -> (Proofs \cup {GenesisProof}) \ {block.proof}
      [] field = "previous_hash" -> {"1", "abc"} \ {block.previous_hash}

TamperedAt(blocks, i, field) ==
    {[blocks EXCEPT ![i] = [@ EXCEPT ![field] = value]] : value \in OtherValues(blocks[i], field)}

Tampered(blocks) ==
    UNION {TamperedAt(blocks, i, field) : i \in 1..Len(blocks), field \in Fields}

ValidateChain ==
    \E candidate \in {chain} \cup Tampered(chain) :
        /\ \A i \in 1..Len(chain) : IsBlock(chain[i])
        /\ ret' = Call("validate_chain", candidate,
                       [raised |-> validate_chain(candidate).raised,
                        value |-> validate_chain(candidate).value], <<>>)
        /\ UNCHANGED <<chain, current_transactions, nodes, promised, provenance, elsewhere>>

\* what validate_chain may be given: the chain, a tampered copy, a prefix of
\* either (the empty one included), or the chain as GET /chain serves it
Prefixes(blocks) == {SubSeq(blocks, 1, n) : n \in 0..Len(blocks)}

Candidates(blocks) ==
    UNION {Prefixes(copy) : copy \in {blocks} \cup Tampered(blocks)}
    \cup Prefixes(full_chain([chain |-> blocks]).value.chain)

ValidateCandidate ==
    \E candidate \in Candidates(chain) :
        /\ ret' = Call("validate_chain", candidate,
                       [raised |-> validate_chain(candidate).raised,
                        value |-> validate_chain(candidate).value], <<>>)
        /\ UNCHANGED <<chain, current_transactions, nodes, promised, provenance, elsewhere>>

----------------------------------------------------------------------------
(* A network of replicas of this program: the local one and those of      *)
(* peers, each with the others registered.  A replica answers GET /chain   *)
(* with full_chain of its ledger, or with status 500 when that raises.     *)

LocalNode == "me:5000"

PeerNodes == {"a:5000", "b:5000"}

Replica(node) == IF node = LocalNode THEN Self ELSE peers[node]

Answer(self) == IF full_chain(self).raised = "" THEN Served(self) ELSE ServerError

\* what the replica at `node` gets from its registered peers, in any order
NetScans(node) ==
    {[i \in 1..Len(o) |-> [node |-> o[i], response |-> Answer(Replica(o[i]))]] :
        o \in Orders(Replica(node).nodes)}

\* GET /nodes/resolve on the local replica
LocalResolves ==
    \E scan \in NetScans(LocalNode) :
        LET result == resolve_conflicts(Self, scan)
        IN  /\ Store(result.self)
            /\ ret' = Call("resolve_conflicts", scan, result, <<>>)
            /\ provenance' = IF result.raised = "" /\ result.value THEN "adopted" ELSE provenance
            /\ UNCHANGED <<promised, elsewhere>>

\* GET /nodes/resolve on the replica at `node`
PeerResolves(node) ==
    \E scan \in NetScans(node) :
        LET result == resolve_conflicts(peers[node], scan)
        IN  /\ peers' = [peers EXCEPT ![node] = result.self]
            /\ ret' = [op |-> "resolve_conflicts", before |-> peers[node], args |-> scan,
                       raised |-> result.raised, value |-> result.value,
                       sealed_promises |-> <<>>]
            /\ UNCHANGED <<chain, current_transactions, nodes, promised, provenance,
                           inflight, lists, submitted>>

----------------------------------------------------------------------------
(* proof_of_work, one step per evaluation of the loop's condition *)

Frame(op, pc, locals) == [op |-> op, pc |-> pc, locals |-> locals]

LastProofs == (0..(MaxProof + 2)) \cup {GenesisProof}

\* the call, and line 194: proof = 0
PowBegin(t) ==
    \E last_proof \in LastProofs :
        /\ inflight[t].op = ""
        /\ inflight' = [inflight EXCEPT ![t] =
               Frame("proof_of_work", "while", [last_proof |-> last_proof, proof |-> 0])]
        /\ UNCHANGED <<chain, current_transactions, nodes, ret, promised, provenance, peers, lists,
                       submitted>>

\* the loop, were proof raised by two
PowIterateByTwo(t) ==
    LET locals == inflight[t].locals
    IN  /\ inflight[t].op = "proof_of_work"
        /\ locals.proof < MaxProof
        /\ validate_proof(locals.last_proof, locals.proof) = FALSE
        /\ inflight' = [inflight EXCEPT ![t].locals.proof = @ + 2]
        /\ UNCHANGED <<chain, current_transactions, nodes, ret, promised, provenance, peers, lists,
                       submitted>>

\* lines 196-197: validate_proof(...) is False, proof += 1
PowIterate(t) ==
    LET locals == inflight[t].locals
    IN  /\ inflight[t].op = "proof_of_work"
        /\ locals.proof < MaxProof
        /\ validate_proof(locals.last_proof, locals.proof) = FALSE
        /\ inflight' = [inflight EXCEPT ![t].locals.proof = @ + 1]
        /\ UNCHANGED <<chain, current_transactions, nodes, ret, promised, provenance, peers, lists,
                       submitted>>

\* lines 196 and 200: the condition fails, return proof
PowReturn(t) ==
    LET locals == inflight[t].locals
    IN  /\ inflight[t].op = "proof_of_work"
        /\ validate_proof(locals.last_proof, locals.proof) # FALSE
        /\ inflight' = [inflight EXCEPT ![t] = Idle]
        /\ ret' = Call("proof_of_work", locals.last_proof, Returned(Self, locals.proof), <<>>)
        /\ UNCHANGED <<chain, current_transactions, nodes, promised, provenance, peers, lists,
                       submitted>>

----------------------------------------------------------------------------
(* Requests handled by threads, one step per statement that reads or       *)
(* writes the ledger; a step is named after the line of that statement.    *)
(* A Block keeps the list object it was given (line 92), so a list is      *)
(* known by a number: lists.pool is the pool's, lists.blocks[i] that of    *)
(* chain[i] (0: a list that never was the pool), and a thread's            *)
(* locals.list that of the block it has built.                             *)

\* list.append(transaction) on the list object k, seen through every holder
AppendedChain(k, transaction) ==
    [i \in 1..Len(chain) |->
        IF lists.blocks[i] = k THEN [chain[i] EXCEPT !.transactions = Append(@, transaction)]
        ELSE chain[i]]

Building(t) == inflight[t].op = "mine" /\ inflight[t].pc \in {"154", "157"}

AppendedFrames(k, transaction) ==
    [t \in Threads |->
        IF Building(t) /\ inflight[t].locals.list = k
            THEN [inflight[t] EXCEPT !.locals.block.transactions = Append(@, transaction)]
        ELSE inflight[t]]

\* self.current_transactions.append(transaction), line 178, by thread t,
\* which goes on as frame
Line178(t, transaction, frame) ==
    /\ current_transactions' = Append(current_transactions, transaction)
    /\ chain' = AppendedChain(lists.pool, transaction)
    /\ inflight' = [AppendedFrames(lists.pool, transaction) EXCEPT ![t] = frame]

\* POST /transactions/new with every field present, up to line 178
Route178(t) ==
    \E payload \in Payloads :
        LET transaction == Transaction(payload.sender, payload.recipient, payload.amount)
        IN  /\ inflight[t].op = ""
            /\ MissingField(payload) = ""
            /\ transaction \notin submitted
            /\ Len(current_transactions) < MaxPool
            /\ Line178(t, transaction, Frame("new_transaction", "181", <<>>))
            /\ submitted' = submitted \cup {transaction}
            /\ UNCHANGED <<nodes, ret, promised, provenance, peers, lists>>

\* line 181, return self.last_block.index + 1, and the response
Route181(t) ==
    /\ inflight[t].op = "new_transaction"
    /\ inflight' = [inflight EXCEPT ![t] = Idle]
    /\ UNCHANGED <<chain, current_transactions, nodes, ret, promised, provenance, peers,
                   lists, submitted>>

\* GET /mine, server.py lines 27-33: last_block, last_proof, proof
Mine27(t) ==
    /\ inflight[t].op = ""
    /\ Len(chain) < MaxChain
    /\ lists.made <= MaxChain
    /\ IsBlock(last_block(Self))
    /\ proof_of_work(last_block(Self).proof) # -1
    /\ inflight' = [inflight EXCEPT ![t] =
           Frame("mine", "178",
                 [last_block |-> last_block(Self),
                  proof |-> proof_of_work(last_block(Self).proof),
                  previous_hash |-> "", block |-> last_block(Self), list |-> 0])]
    /\ UNCHANGED <<chain, current_transactions, nodes, ret, promised, provenance, peers,
                   lists, submitted>>

\* the reward, server.py line 36: new_transaction up to line 178
Mine178(t) ==
    /\ inflight[t].op = "mine" /\ inflight[t].pc = "178"
    /\ Line178(t, Transaction("0", node_identifier, RewardAmount),
               [inflight[t] EXCEPT !.pc = "181"])
    /\ UNCHANGED <<nodes, ret, promised, provenance, peers, lists, submitted>>

\* line 181 of new_transaction (it raises when the last block is a dict),
\* then server.py line 43: previous_hash = hash(last_block)
Mine181(t) ==
    /\ inflight[t].op = "mine" /\ inflight[t].pc = "181"
    /\ inflight' = [inflight EXCEPT ![t] =
           IF ~IsBlock(last_block(Self)) THEN Idle
           ELSE [@ EXCEPT !.pc = "145", !.locals.previous_hash = hash(inflight[t].locals.last_block)]]
    /\ UNCHANGED <<chain, current_transactions, nodes, ret, promised, provenance, peers,
                   lists, submitted>>

\* new_block lines 145-151: the block is built on the pool's list object
Mine145(t) ==
    \E now \in Times :
        /\ inflight[t].op = "mine" /\ inflight[t].pc = "145"
        /\ inflight' = [inflight EXCEPT ![t] =
               [@ EXCEPT !.pc = "154",
                         !.locals.block = Block(Len(chain) + 1, now, current_transactions,
                                                inflight[t].locals.proof,
                                                inflight[t].locals.previous_hash),
                         !.locals.list = lists.pool]]
        /\ UNCHANGED <<chain, current_transactions, nodes, ret, promised, provenance, peers,
                       lists, submitted>>

\* line 154, were it self.current_transactions.clear()
Mine154Clear(t) ==
    /\ inflight[t].op = "mine" /\ inflight[t].pc = "154"
    /\ current_transactions' = <<>>
    /\ chain' = [i \in 1..Len(chain) |->
                    IF lists.blocks[i] = lists.pool THEN [chain[i] EXCEPT !.transactions = <<>>]
                    ELSE chain[i]]
    /\ inflight' = [u \in Threads |->
                       IF u = t THEN [inflight[t] EXCEPT !.pc = "157",
                                                         !.locals.block.transactions = <<>>]
                       ELSE IF Building(u) /\ inflight[u].locals.list = lists.pool
                           THEN [inflight[u] EXCEPT !.locals.block.transactions = <<>>]
                       ELSE inflight[u]]
    /\ UNCHANGED <<nodes, ret, promised, provenance, peers, lists, submitted>>

\* line 154: self.current_transactions = [], a new list object
Mine154(t) ==
    /\ inflight[t].op = "mine" /\ inflight[t].pc = "154"
    /\ current_transactions' = <<>>
    /\ lists' = [lists EXCEPT !.pool = lists.made, !.made = @ + 1]
    /\ inflight' = [inflight EXCEPT ![t].pc = "157"]
    /\ UNCHANGED <<chain, nodes, ret, promised, provenance, peers, submitted>>

\* line 157: self.chain.append(block); the block is returned and answered
Mine157(t) ==
    /\ inflight[t].op = "mine" /\ inflight[t].pc = "157"
    /\ chain' = Append(chain, inflight[t].locals.block)
    /\ lists' = [lists EXCEPT !.blocks = Append(@, inflight[t].locals.list)]
    /\ inflight' = [inflight EXCEPT ![t] = Idle]
    /\ UNCHANGED <<current_transactions, nodes, ret, promised, provenance, peers, submitted>>

\* GET /nodes/resolve, lines 252-276: max_length is read, the peers are asked;
\* the thread goes on when the loop ends with a new_chain
Consensus258(t) ==
    \E scan \in Scans(nodes) :
        LET loop == resolve_conflicts_loop(scan, 1, <<>>, Len(chain))
        IN  /\ inflight[t].op = ""
            /\ loop.raised = ""
            /\ Len(loop.new_chain) > 0
            /\ inflight' = [inflight EXCEPT ![t] =
                   Frame("consensus", "280", [new_chain |-> loop.new_chain])]
            /\ UNCHANGED <<chain, current_transactions, nodes, ret, promised, provenance,
                           peers, lists, submitted>>

\* line 280: self.chain = new_chain
Consensus280(t) ==
    /\ inflight[t].op = "consensus"
    /\ chain' = inflight[t].locals.new_chain
    /\ lists' = [lists EXCEPT !.blocks = [i \in 1..Len(inflight[t].locals.new_chain) |-> 0]]
    /\ inflight' = [inflight EXCEPT ![t] = Idle]
    /\ UNCHANGED <<current_transactions, nodes, ret, promised, provenance, peers, submitted>>

RouteStep(t) == Route178(t) \/ Route181(t)

MineStep(t) ==
    Mine27(t) \/ Mine178(t) \/ Mine181(t) \/ Mine145(t) \/ Mine154(t) \/ Mine157(t)

ConsensusStep(t) == Consensus258(t) \/ Consensus280(t)

----------------------------------------------------------------------------
(* Specifications *)

\* the running server
Next == Mine \/ NewTransactionRoute \/ FullChain \/ RegisterNodes \/ Consensus

Spec == Init /\ [][Next]_vars

\* direct calls of the ledger's methods, with any arguments
NextApi == NewBlockSameProof \/ NewTransaction \/ RegisterNode \/ ResolveConflicts

SpecApi == Init /\ [][NextApi]_vars

\* chains built by new_block alone
SpecSeal == Init /\ [][NewBlock]_vars

\* the pending pool: transactions submitted, blocks sealed directly or by mine
NextPool == NewBlockSameProof \/ NewTransaction \/ Mine

SpecPool == Init /\ [][NextPool]_vars

\* validate_chain as a function: a mined chain is drawn, then validate_chain is
\* called once, on it or on a tampered copy of it
PendingPools ==
    UNION {[1..n -> {Transaction(input[1], input[2], input[3]) : input \in TxInputs}] :
              n \in 0..MaxPool}

RECURSIVE MinedLedgers(_)
MinedLedgers(length) ==
    IF length <= 1 THEN {Blockchain(now) : now \in Times}
    ELSE {mine([self EXCEPT !.current_transactions = pool], now).self :
             self \in MinedLedgers(length - 1), pool \in PendingPools, now \in Times}

InitTamper ==
    /\ AtRest
    /\ chain \in UNION {{self.chain : self \in MinedLedgers(length)} : length \in 1..MaxChain}
    /\ current_transactions = <<>>
    /\ nodes = {}
    /\ ret = Call("__init__", <<>>, Returned(Self, FALSE), <<>>)
    /\ promised = <<>>
    /\ provenance = "valid seals"

ValidateOnce == ret.op = "__init__" /\ ValidateChain

SpecTamper == InitTamper /\ [][ValidateOnce]_vars

\* validate_chain called once on any candidate
ValidateAny == ret.op = "__init__" /\ ValidateCandidate

SpecValidate == InitTamper /\ [][ValidateAny]_vars

\* peers registered, by the method and by the route, between submissions
NextNodes == RegisterNode \/ RegisterNodes \/ NewTransaction

SpecNodes == Init /\ [][NextNodes]_vars

\* the server with one peer registered, its handlers run by two threads
InitThreads ==
    /\ AtRest
    /\ chain = Blockchain(1).chain
    /\ current_transactions = Blockchain(1).current_transactions
    /\ nodes = {"a:5000"}
    /\ ret = [Call("register_nodes", << <<"http://a:5000">> >>, Returned(Self, 201), <<>>)
                 EXCEPT !.before.nodes = {}]
    /\ promised = <<>>
    /\ provenance = "valid seals"

\* mining attempts and chain replacements
NextMineRace == \E t \in Threads : MineStep(t) \/ ConsensusStep(t)

SpecMineRace == InitThreads /\ [][NextMineRace]_vars

\* submissions and mining attempts
NextSealRace == \E t \in Threads : RouteStep(t) \/ MineStep(t)

SpecSealRace == Init /\ [][NextSealRace]_vars

\* submissions, mining attempts and chain replacements
NextThreads == \E t \in Threads : RouteStep(t) \/ MineStep(t) \/ ConsensusStep(t)

SpecThreads == InitThreads /\ [][NextThreads]_vars

\* replicas that hold mined chains, seal no more and keep calling resolve_conflicts
InitNet ==
    /\ inflight = [t \in Threads |-> Idle]
    /\ lists = ListsAtStart
    /\ submitted = {}
    /\ \E own \in UNION {MinedLedgers(length) : length \in 1..MaxChain} :
          /\ chain = own.chain
          /\ current_transactions = own.current_transactions
    /\ nodes = PeerNodes
    /\ \E held \in [PeerNodes -> UNION {MinedLedgers(length) : length \in 1..MaxChain}] :
          peers = [node \in PeerNodes |->
                      [held[node] EXCEPT !.nodes = (PeerNodes \ {node}) \cup {LocalNode}]]
    /\ ret = Call("__init__", <<>>, Returned(Self, FALSE), <<>>)
    /\ promised = <<>>
    /\ provenance = "valid seals"

NextNet == LocalResolves \/ \E node \in PeerNodes : PeerResolves(node)

SpecNet ==
    /\ InitNet
    /\ [][NextNet]_vars
    /\ WF_vars(LocalResolves)
    /\ \A node \in PeerNodes : WF_vars(PeerResolves(node))

\* proof_of_work called by the threads; a thread that is in the loop goes on
NextPow == \E t \in Threads : PowBegin(t) \/ PowIterate(t) \/ PowReturn(t)

\* where a thread is in proof_of_work
PowPosition(t) ==
    <<inflight[t].op, IF inflight[t].op = "proof_of_work" THEN inflight[t].locals.proof ELSE -1>>

SpecPow ==
    /\ Init
    /\ [][NextPow]_vars
    /\ \A t \in Threads : WF_PowPosition(t)(PowIterate(t) \/ PowReturn(t))

----------------------------------------------------------------------------
(* Properties *)

Passes(blocks) ==
    validate_chain(blocks).raised = "" /\ validate_chain(blocks).value

\* the chain of Block objects a peer holds, from the body its full_chain serves
HeldChain(response) ==
    [i \in 1..Len(response.chain) |->
        [response.chain[i] EXCEPT
            !.kind = "Block",
            !.transactions = [j \in 1..Len(@) |-> [@[j] EXCEPT !.kind = "Transaction"]]]]

\* the peer answered, and holds a valid chain with more blocks than `local`
HoldsLongerValid(response, local) ==
    /\ response.reachable
    /\ response.status_code = HttpOk
    /\ Len(HeldChain(response)) > Len(local)
    /\ Passes(HeldChain(response))

SomeLongerValid(scan, local) ==
    \E i \in 1..Len(scan) : HoldsLongerValid(scan[i].response, local)

\* C1: under the server's operations (new_transaction route, mine,
\* register_nodes, consensus), every block of the local chain after the first
\* stores the hash of its predecessor and a proof that validates against the
\* predecessor's proof.
C1_ChainLinkage ==
    \A i \in 2..Len(chain) :
        /\ IsBlock(chain[i - 1]) /\ IsBlock(chain[i])
        /\ chain[i].previous_hash = hash(chain[i - 1])
        /\ validate_proof(chain[i - 1].proof, chain[i].proof)

C1_Witness == Len(chain) >= 3 /\ nodes # {} /\ ret.op = "consensus" /\ ret.raised = ""

\* C2: resolve_conflicts replaces the local chain and returns true if and only
\* if some registered peer holds a valid chain with strictly more blocks than
\* the local chain; otherwise it returns false and leaves the chain as it was.
C2_ReplacesIffLongerValid ==
    ret.op = "resolve_conflicts" =>
        IF SomeLongerValid(ret.args, ret.before.chain)
            THEN ret.raised = "" /\ ret.value = TRUE /\ chain # ret.before.chain
            ELSE ret.raised = "" /\ ret.value = FALSE /\ chain = ret.before.chain

\* C3: a chain built from the genesis block by new_block calls alone, whatever
\* proofs are passed, passes validate_chain.
C3_AnySealsValid == provenance # "adopted" => Passes(chain)

\* C3 (amended): a chain built from the genesis block by new_block calls alone
\* passes validate_chain when every call passed a proof that validates against
\* the last block's proof, and a previous_hash that was omitted, empty or the
\* hash of the last block.
C3_ValidSealsValid == provenance = "valid seals" => Passes(chain)

C3_Witness ==
    /\ provenance = "valid seals" /\ Len(chain) >= 3
    /\ ret.op = "new_block" /\ ret.args.previous_hash # <<>>

\* C4: what new_transaction returned for a transaction is the index of the
\* block that new_block later seals it in.
C4_PromisedIndex ==
    (ret.op = "new_block" /\ ret.raised = "") =>
        \A i \in 1..Len(ret.sealed_promises) :
            ret.sealed_promises[i] # 0 => ret.sealed_promises[i] = ret.value.index

\* C5: a call of new_block (directly, or by mine after it has added the
\* reward) puts exactly the transactions pending before the call, in their
\* order, in the new block, appends that block, and leaves the pool empty.
PendingAtSeal ==
    IF ret.op = "mine"
        THEN Append(ret.before.current_transactions,
                    Transaction("0", node_identifier, RewardAmount))
    ELSE ret.before.current_transactions

C5_SealConsumesPool ==
    (ret.op \in {"new_block", "mine"} /\ ret.raised = "") =>
        /\ ret.value.transactions = PendingAtSeal
        /\ current_transactions = <<>>
        /\ chain = Append(ret.before.chain, ret.value)

C5_Witness ==
    /\ ret.op \in {"new_block", "mine"} /\ ret.raised = ""
    /\ Len(ret.value.transactions) >= 2
    /\ ret.value.transactions[1] # ret.value.transactions[2]
    /\ current_transactions = <<>>

\* C6: the first block of the local chain always has proof 100, previous_hash
\* "1" and no transactions.
C6_GenesisKept ==
    /\ chain[1].proof = GenesisProof
    /\ chain[1].previous_hash = "1"
    /\ chain[1].transactions = <<>>

\* C7: the block at position i of the local chain (from 1) has index i.
C7_IndexContiguous == \A i \in 1..Len(chain) : chain[i].index = i

\* C8: no operation makes the local chain shorter; new_block adds one block,
\* a resolve_conflicts that returns true leaves more blocks than before, one
\* that returns false leaves as many.
C8_LengthNeverDecreases ==
    /\ Len(chain) >= Len(ret.before.chain)
    /\ (ret.op = "new_block" /\ ret.raised = "") => Len(chain) = Len(ret.before.chain) + 1
    /\ (ret.op = "resolve_conflicts" /\ ret.raised = "" /\ ret.value = TRUE) =>
           Len(chain) > Len(ret.before.chain)
    /\ (ret.op = "resolve_conflicts" /\ ret.raised = "" /\ ret.value = FALSE) =>
           Len(chain) = Len(ret.before.chain)

AllUnreachable(scan) == \A i \in 1..Len(scan) : ~scan[i].response.reachable

\* C9: when a registered peer cannot be reached, resolve_conflicts still
\* completes: it adopts a chain and returns true if another peer holds a
\* longer valid chain, and returns false, the chain unchanged, if every peer
\* fails.
C9_FailedPeerSkipped ==
    (/\ ret.op = "resolve_conflicts"
     /\ \E i \in 1..Len(ret.args) : ~ret.args[i].response.reachable) =>
        /\ ret.raised = ""
        /\ SomeLongerValid(ret.args, ret.before.chain) =>
               (ret.value = TRUE /\ chain # ret.before.chain)
        /\ AllUnreachable(ret.args) => (ret.value = FALSE /\ chain = ret.before.chain)

\* position i is the only one where the copy differs, and it differs in one field
OneFieldChanged(blocks, copy, i) ==
    /\ Len(copy) = Len(blocks)
    /\ \A j \in 1..Len(blocks) : j # i => copy[j] = blocks[j]
    /\ copy[i].kind = blocks[i].kind
    /\ Cardinality({field \in Fields : copy[i][field] # blocks[i][field]}) = 1

\* C10: for a chain that passes validate_chain, changing one field of a block
\* that has a successor makes validate_chain return false.
C10_TamperDetected ==
    (/\ ret.op = "validate_chain"
     /\ Passes(chain)
     /\ \E i \in 1..(Len(chain) - 1) : OneFieldChanged(chain, ret.args, i)) =>
        (ret.raised = "" /\ ret.value = FALSE)

C10_Witness ==
    /\ ret.op = "validate_chain" /\ Passes(chain) /\ Len(chain) >= 3
    /\ OneFieldChanged(chain, ret.args, 2)
    /\ ret.args[2].timestamp # chain[2].timestamp
    /\ ret.raised = "" /\ ret.value = FALSE

\* the proof returned last validates, is the smallest that does, and is what
\* the function proof_of_work gives
ReturnedSmallest ==
    IF ret.op = "proof_of_work"
        THEN /\ validate_proof(ret.args, ret.value)
             /\ \A k \in 0..(ret.value - 1) : ~validate_proof(ret.args, k)
             /\ ret.value = proof_of_work(ret.args)
    ELSE TRUE

\* C11: proof_of_work(p) returns a proof that validates against p, no smaller
\* non-negative integer validates against p, and a call returns whenever some
\* proof validates against p.
C11_SmallestProof ==
    /\ []ReturnedSmallest
    /\ \A t \in Threads, p \in LastProofs :
           (/\ inflight[t].op = "proof_of_work"
            /\ inflight[t].locals.last_proof = p
            /\ \E q \in Proofs : validate_proof(p, q))
           ~> (inflight[t].op = "")

C11_Witness ==
    /\ ret.op = "proof_of_work" /\ ret.value > 0
    /\ \E q \in Proofs : q > ret.value /\ validate_proof(ret.args, q)

\* C12: only sealing empties the pending pool.  A submission (the route, or
\* the reward inside mine) appends one transaction at the end; a successful
\* mine leaves the pool empty, its block holding the pool followed by the
\* reward; a rejected submission, a failed mine, register_nodes, consensus
\* (whether or not the chain is replaced) and full_chain leave the pool as it was.
C12_PoolFrame ==
    /\ (ret.op = "new_transaction route" /\ MissingField(ret.args) = "") =>
           current_transactions =
               Append(ret.before.current_transactions,
                      Transaction(ret.args.sender, ret.args.recipient, ret.args.amount))
    /\ (ret.op = "new_transaction route" /\ MissingField(ret.args) # "") =>
           current_transactions = ret.before.current_transactions
    /\ (ret.op = "mine" /\ ret.raised = "") =>
           /\ current_transactions = <<>>
           /\ ret.value.transactions =
                  Append(ret.before.current_transactions,
                         Transaction("0", node_identifier, RewardAmount))
    /\ (ret.op = "mine" /\ ret.raised # "") =>
           current_transactions = ret.before.current_transactions
    /\ ret.op \in {"__init__", "register_nodes", "consensus", "full_chain"} =>
           current_transactions = ret.before.current_transactions

C12_Witness ==
    /\ ret.op = "consensus" /\ ret.raised = "" /\ ret.value = TRUE
    /\ chain # ret.before.chain
    /\ current_transactions # <<>>

\* all replicas hold the chain the local one holds
Converged == \A node \in PeerNodes : peers[node].chain = chain

\* C13: replicas that have each other registered, hold valid chains, seal
\* no more and keep calling resolve_conflicts eventually all hold the same
\* chain, and from then on every resolve_conflicts returns false.
C13_Convergence ==
    <>[](/\ Converged
         /\ ret.op = "resolve_conflicts" => (ret.raised = "" /\ ret.value = FALSE))

\* the network locations of a list of addresses
Netlocs(list) == {urlparse_netloc(list[i]) : i \in 1..Len(list)}

\* C14: register_node adds the address's network location to the peer set:
\* nothing changes when it is there already, exactly one element is added
\* when it is not, and the chain and the pending pool stay as they were; the
\* register_nodes route does so for each address of its list.
C14_RegisterIdempotent ==
    /\ ret.op = "register_node" =>
           /\ nodes = ret.before.nodes \cup {urlparse_netloc(ret.args)}
           /\ Cardinality(nodes) = Cardinality(ret.before.nodes)
                  + (IF urlparse_netloc(ret.args) \in ret.before.nodes THEN 0 ELSE 1)
           /\ chain = ret.before.chain
           /\ current_transactions = ret.before.current_transactions
    /\ ret.op = "register_nodes" =>
           /\ nodes = ret.before.nodes \cup (IF ret.args = <<>> THEN {} ELSE Netlocs(ret.args[1]))
           /\ chain = ret.before.chain
           /\ current_transactions = ret.before.current_transactions

C14_Witness ==
    /\ ret.op = "register_node" /\ ret.args = "http://a:5000/chain"
    /\ "a:5000" \in ret.before.nodes
    /\ nodes = ret.before.nodes
    /\ current_transactions # <<>>

\* C15: while mining attempts interleave, step by step, with each other and
\* with chain replacements by resolve_conflicts, the local chain passes
\* validate_chain in every reachable state.
C15_RaceKeepsValid == Passes(chain)

\* how many blocks of the chain hold the transaction
BlocksHolding(transaction) ==
    Cardinality({i \in 1..Len(chain) :
        \E j \in 1..Len(chain[i].transactions) : chain[i].transactions[j] = transaction})

Pending(transaction) ==
    \E j \in 1..Len(current_transactions) : current_transactions[j] = transaction

Quiescent == \A t \in Threads : inflight[t].op = ""

\* C16: however the steps of concurrent submissions and seals interleave,
\* once the calls have returned every submitted transaction is either in the
\* pending pool or in exactly one sealed block: not in two blocks, not in a
\* block and the pool, and not lost.
C16_ConsumedOnce ==
    Quiescent =>
        \A transaction \in submitted :
            BlocksHolding(transaction) + (IF Pending(transaction) THEN 1 ELSE 0) = 1

\* every block of the chain is, after the step, where it was and as it was
BlocksKept ==
    /\ Len(chain') >= Len(chain)
    /\ \A i \in 1..Len(chain) : chain'[i] = chain[i]

\* C17: in every step of interleaved submissions, mining attempts and chain
\* replacements, each block of the local chain keeps its position and all its
\* fields, the content of its transaction list included, unless the step is
\* resolve_conflicts replacing the whole chain.
C17_SealedBlocksKept == [][BlocksKept \/ \E t \in Threads : Consensus280(t)]_vars

\* a block sealed on the pool's list is in the chain, and a transaction
\* submitted since is pending while another mining attempt builds its block
C17_Witness ==
    /\ Len(chain) >= 2
    /\ lists.blocks[2] # 0
    /\ \E transaction \in submitted : Pending(transaction) /\ BlocksHolding(transaction) = 0
    /\ \E t \in Threads : Building(t)

\* the peer answered, and holds a chain with more blocks than `local` that
\* does not pass validate_chain
HoldsLongerInvalid(response, local) ==
    /\ response.reachable
    /\ response.status_code = HttpOk
    /\ Len(HeldChain(response)) > Len(local)
    /\ ~Passes(HeldChain(response))

\* scan[i] is the first of the longest valid candidates
FirstLongestValid(scan, i, local) ==
    /\ HoldsLongerValid(scan[i].response, local)
    /\ \A j \in 1..Len(scan) :
           HoldsLongerValid(scan[j].response, local) =>
               \/ Len(scan[j].response.chain) < Len(scan[i].response.chain)
               \/ Len(scan[j].response.chain) = Len(scan[i].response.chain) /\ j >= i

\* C18: when resolve_conflicts returns true, no registered peer holds a valid
\* chain with more blocks than the adopted one, and the adopted chain is that
\* of the first peer in the scan among those holding a longest valid chain;
\* and when a peer holding an invalid longer chain is scanned before a peer
\* holding a valid longer one, resolve_conflicts still adopts and returns true.
C18_AdoptsFirstLongestValid ==
    ret.op = "resolve_conflicts" =>
        /\ (ret.raised = "" /\ ret.value = TRUE) =>
               \A i \in 1..Len(ret.args) :
                   /\ (/\ ret.args[i].response.reachable
                       /\ ret.args[i].response.status_code = HttpOk
                       /\ Len(ret.args[i].response.chain) > 0
                       /\ Passes(HeldChain(ret.args[i].response))) =>
                           Len(ret.args[i].response.chain) <= Len(chain)
                   /\ FirstLongestValid(ret.args, i, ret.before.chain) =>
                           chain = ret.args[i].response.chain
        /\ (\E i, j \in 1..Len(ret.args) :
               /\ i < j
               /\ HoldsLongerInvalid(ret.args[i].response, ret.before.chain)
               /\ HoldsLongerValid(ret.args[j].response, ret.before.chain)) =>
                   (ret.raised = "" /\ ret.value = TRUE)

\* every block of the candidate after the first stores the hash of the block
\* before it and a proof that validates against that block's proof
PairsLink(candidate) ==
    \A i \in 2..Len(candidate) :
        /\ candidate[i].previous_hash = hash(candidate[i - 1])
        /\ validate_proof(candidate[i - 1].proof, candidate[i].proof)

\* C19: validate_chain(candidate) returns, and returns true exactly when
\* every consecutive pair of the candidate links by hash and proof; so it
\* returns true for a candidate of one block whatever the block holds; and it
\* leaves the ledger as it was.
C19_ValidateExact ==
    ret.op = "validate_chain" =>
        /\ ret.raised = ""
        /\ ret.value = PairsLink(ret.args)
        /\ Len(ret.args) = 1 => ret.value = TRUE
        /\ Self = ret.before

\* the transaction mine adds, server.py lines 36-40
Reward == Transaction("0", node_identifier, RewardAmount)

\* C20: under the server's operations, the block a mining attempt produces
\* holds the transactions that were pending, in their order, and then the
\* reward transaction (sender "0", recipient this node, amount 1) as its
\* last; so every Block object of the chain after the first ends with the
\* reward, and only the genesis block has no transactions.
C20_MinedEndsWithReward ==
    /\ (ret.op = "mine" /\ ret.raised = "") =>
           /\ Last(chain) = ret.value
           /\ SubSeq(ret.value.transactions, 1, Len(ret.value.transactions) - 1)
                  = ret.before.current_transactions
           /\ Last(ret.value.transactions) = Reward
    /\ \A i \in 1..Len(chain) :
           IsBlock(chain[i]) =>
               IF i = 1 THEN chain[i].transactions = <<>>
               ELSE chain[i].transactions # <<>> /\ Last(chain[i].transactions) = Reward

\* a block mined with nothing pending, then one mined with a transaction pending
C20_Witness ==
    /\ ret.op = "mine" /\ ret.raised = ""
    /\ Len(chain) = 3
    /\ chain[2].transactions = <<Reward>>
    /\ Len(chain[3].transactions) = 2
    /\ chain[3].transactions[1] # Reward

====
